---- MODULE Spec2Model ----
(***************************************************************************)
(* The gateway request engine of gateway/request.py: one inbound request   *)
(* handled either by GatewayRequest (sequential, requests) or by           *)
(* AsyncGatewayRequest (concurrent, asyncio + aiohttp).                    *)
(*                                                                         *)
(* The registry (LogicModule, Relationship, JoinRecord), the OpenAPI       *)
(* documents and the upstream services are the environment.  What they     *)
(* answer is chosen the first time the engine asks and is kept in          *)
(* registry, schema, upstream, rels and joins, so that a second question   *)
(* gets the same answer.                                                   *)
(*                                                                         *)
(* Modelling decisions:                                                    *)
(*  - the primary service is "P"; relationships link the primary model to  *)
(*    a model of service "A" or "B", one model per related service;        *)
(*  - record i of the primary payload has origin_pk i;                     *)
(*  - a resolved upstream URL is the pair <<service, pk>>;                 *)
(*  - the legacy LogicModule.relationships mapping is empty, so that       *)
(*    _aggregate_response_data embeds nothing.                             *)
(*                                                                         *)
(* Spec is one request under one of the two classes.  SpecBoth is the      *)
(* request under GatewayRequest and then under a new AsyncGatewayRequest   *)
(* with the environment's answers kept, to compare the two.                *)
(***************************************************************************)
EXTENDS Integers, Sequences, FiniteSets, TLC

\* Bounds of the model.
MaxJoin == 2        \* join records of one (record, relationship)
MaxPlan == 2        \* join records of one inbound request

\* status_code == 200 in _get_data
HTTP_OK == 200
\* the non-2xx statuses an upstream answers with
Non2xx == {500}
\* status of exceptions.ServiceDoesNotExist
HTTP_NOT_FOUND == 404

PrimaryService == "P"
RelatedServices == {"A", "B"}
Services == {PrimaryService} \cup RelatedServices

\* the lookup field values of the records of the primary payload, in order
OriginPks == {1, 2}
MaxRecs == Cardinality(OriginPks)
\* the keys of the relationships of the primary model, in order
RelationshipKeys == <<"items", "parts">>
MaxRels == Len(RelationshipKeys)
\* the pks of the related records
TargetPks == {10, 11}
\* the URL of the primary call; 0 stands for url_kwargs['pk'] or for no pk
PrimaryUrl == <<PrimaryService, 0>>
SubUrls == RelatedServices \X (OriginPks \cup TargetPks)
Urls == {PrimaryUrl} \cup SubUrls

PrivateParams == {"aggregate", "join"}
\* the inbound requests explored: method, query parameters, JSON content type
Requests ==
    { [method |-> "get",  query |-> {},                         json |-> FALSE],
      [method |-> "get",  query |-> {"q"},                      json |-> TRUE],
      [method |-> "get",  query |-> {"join"},                   json |-> FALSE],
      [method |-> "get",  query |-> {"aggregate", "join", "q"}, json |-> FALSE],
      [method |-> "post", query |-> {"q"},                      json |-> FALSE],
      [method |-> "post", query |-> {"join"},                   json |-> TRUE] }

VARIABLES
    executor,       \* "sync": GatewayRequest, "async": AsyncGatewayRequest
    method,         \* request.method
    qp,             \* request.query_params (request._request.GET)
    jsonBody,       \* request.content_type == 'application/json'
    inbound,        \* the query parameters of the inbound request
    pc,             \* position of the main flow of control
    registry,       \* LogicModule table, as far as looked up
    logic_modules,  \* self._logic_modules
    schema,         \* what each schema_url answers, as far as fetched
    specs,          \* self._specs
    fetches,        \* number of GETs of each schema_url
    upstream,       \* what each upstream URL answers, as far as called
    data,           \* self._data
    upCalls,        \* number of upstream calls per URL
    subCalls,       \* number of upstream calls per URL made by join sub-requests
    hits,           \* number of answers taken from self._data per URL
    calls,          \* the upstream calls made: url, query string, body
    rels,           \* relationships of the primary model
    joins,          \* join records per (record, relationship)
    embed,          \* data_item[relationship.key] per (record, relationship)
    cur,            \* loop position of the join
    warm,           \* tasks of the first asyncio.gather
    fan,            \* tasks of the second asyncio.gather
    primary,        \* content, status_code, headers of _get_data
    response,       \* the GatewayResponse returned by perform()
    error,          \* the exception perform() ended with
    first           \* what an earlier run on the same inputs ended with

vars == <<executor, method, qp, jsonBody, inbound, pc, registry, logic_modules,
          schema, specs, fetches, upstream, data, upCalls, subCalls, hits, calls, rels,
          joins, embed, cur, warm, fan, primary, response, error, first>>

----------------------------------------------------------------------------
\* Helpers

SeqsUpTo(S, n) == UNION {[1..k -> S] : k \in 0..n}

RECURSIVE SumLens(_, _)
SumLens(f, D) ==
    IF D = {} THEN 0
    ELSE LET d == CHOOSE x \in D : TRUE
         IN Len(f[d]) + SumLens(f, D \ {d})

Slots == (1..MaxRecs) \X (1..MaxRels)

NoAnswer == [kind |-> "none", status |-> 0, body |-> "", headers |-> "",
             lookup |-> <<>>]
TransportFailure == [kind |-> "fail", status |-> 0, body |-> "", headers |-> "",
                     lookup |-> <<>>]

Headers(url) == IF url = PrimaryUrl THEN "primary-headers" ELSE "sub-headers"

\* What the primary upstream may answer: a status, and an object, a paginated
\* object, an array, a body that is no object or array ("other": a JSON scalar,
\* or bytes that do not decode, sent as application/json) or a body of another
\* content type ("raw"); each record has the lookup field or not.
PrimaryAnswers ==
    {TransportFailure} \cup
    {[kind |-> "resp", status |-> s, body |-> b, headers |-> Headers(PrimaryUrl),
      lookup |-> l] :
        s \in {HTTP_OK} \cup Non2xx,
        b \in {"dict", "results", "list", "other", "raw"},
        l \in SeqsUpTo(BOOLEAN, MaxRecs)}

\* An object is one record, anything that is neither object nor array has no
\* record.  The join never reads past a record without the lookup field, so
\* such a record is the last one.
WellFormed(a) ==
    /\ \/ a.kind = "fail"
       \/ a.body = "dict" /\ Len(a.lookup) = 1
       \/ a.body \in {"results", "list"}
       \/ a.body \in {"other", "raw"} /\ a.lookup = <<>>
    /\ \A i \in 1..(Len(a.lookup) - 1) : a.lookup[i]

\* What a related upstream may answer: no connection, an object with status
\* 200 or with a non-2xx status, or something that is no object, sent as
\* application/json or not.
SubAnswers(url) ==
    {TransportFailure} \cup
    {[kind |-> "resp", status |-> sb[1], body |-> sb[2], headers |-> Headers(url),
      lookup |-> <<>>] :
        sb \in ({HTTP_OK} \X {"dict", "other", "raw"}) \cup (Non2xx \X {"dict"})}

UpstreamAnswers(url) ==
    IF upstream[url].kind # "none" THEN {upstream[url]}
    ELSE IF url = PrimaryUrl THEN {a \in PrimaryAnswers : WellFormed(a)}
    ELSE SubAnswers(url)

\* LogicModule.objects.get(endpoint_name=...)
RegistryAnswers(svc) ==
    IF registry[svc] = "unknown" THEN {"yes", "no"} ELSE {registry[svc]}

\* What a GET of a schema_url gives: a document with the operation, a
\* document without it, a body that is not JSON, or no connection.
SchemaAnswers(svc) ==
    IF schema[svc] = "unknown" THEN {"ok", "noop", "notjson", "unreachable"}
    ELSE {schema[svc]}

NoError == [exc |-> "", at |-> ""]

\* GatewayResponse: status, headers and content; the content is the shape of
\* the payload (body), its records in order, each with or without the lookup
\* field (records), and what the relationship keys of each record hold (embed)
NoResponse == [set |-> FALSE, origin |-> "", status |-> 0, headers |-> "",
               body |-> "", records |-> <<>>,
               embed |-> [s \in Slots |-> [set |-> FALSE, items |-> <<>>]]]

\* type(content) in [dict, list]
IsStructured(a) == a.body \in {"dict", "results", "list"}

\* is_valid_for_cache without the test of the query parameters
is_valid_for_cache_any_query(m, q) == m = "get"

\* BaseGatewayRequest.is_valid_for_cache
is_valid_for_cache(m, q) == m = "get" /\ q = {}

\* BaseGatewayRequest.get_request_data: the names that travel in the data of
\* an upstream call.
get_request_data(m, q, json) ==
    IF json THEN {"<json body>"}
    ELSE (q \ PrivateParams) \cup (IF m \in {"post", "put", "patch"} THEN {"<form body>"} ELSE {})

\* Relationship.related_model / Relationship.origin_model, as services
related_model(rel) == IF rel.fwd THEN rel.other ELSE PrimaryService
origin_model(rel) == IF rel.fwd THEN PrimaryService ELSE rel.other

\* datamesh.utils.prepare_lookup_kwargs
prepare_lookup_kwargs(is_forward_lookup, rel) ==
    IF is_forward_lookup
    THEN [model |-> related_model(rel), field |-> "related_record_id"]
    ELSE [model |-> origin_model(rel), field |-> "record_id"]

\* JoinRecord.objects.get_join_records: the join records of origin_pk whose
\* other ends are the given targets, in the registry's order.
get_join_records(origin_pk, is_forward, targets) ==
    [k \in 1..Len(targets) |->
        IF is_forward
        THEN [record_id |-> origin_pk, related_record_id |-> targets[k]]
        ELSE [record_id |-> targets[k], related_record_id |-> origin_pk]]

Planned == SumLens(joins, Slots)

\* The related services and the related records are interchangeable: the
\* first relationship of the registry is the one with service "A" and the first
\* join record met is the one of pk 10.
FirstService == "A"
FirstPk == CHOOSE p \in TargetPks : \A q \in TargetPks : p <= q

JoinTargets ==
    {t \in SeqsUpTo(TargetPks, IF MaxPlan - Planned < MaxJoin
                               THEN MaxPlan - Planned ELSE MaxJoin) :
        (Planned = 0 /\ t # <<>>) => t[1] = FirstPk}

Relationships ==
    {rs \in SeqsUpTo([other : RelatedServices, fwd : BOOLEAN], MaxRels) :
        rs # <<>> => rs[1].other = FirstService}

NumRecs == Len(primary.lookup)

\* No earlier run: nothing is known of the registry's relationships (model)
\* and join records (known: the (record, relationship) pairs looked up).
NotRun == [ran |-> FALSE, outcome |-> [kind |-> "none", response |-> NoResponse],
           model |-> "unknown", known |-> {}]

\* LogicModuleModel.objects.get of the primary model: found or DoesNotExist
LogicModuleModelAnswers ==
    IF first.model = "unknown" THEN {"yes", "no"} ELSE {first.model}

\* logic_module_model.get_relationships()
RelationshipsAnswers == IF first.model = "yes" THEN {rels} ELSE Relationships

\* the other ends of the join records of record i and relationship j
JoinRecordsAnswers(i, j) ==
    IF <<i, j>> \in first.known
    THEN {[k \in 1..Len(joins[<<i, j>>]) |->
             IF rels[j].fwd THEN joins[<<i, j>>][k].related_record_id
             ELSE joins[<<i, j>>][k].record_id]}
    ELSE JoinTargets

----------------------------------------------------------------------------
Init ==
    /\ executor \in {"sync", "async"}
    /\ \E rq \in Requests :
         method = rq.method /\ qp = rq.query /\ jsonBody = rq.json /\ inbound = rq.query
    /\ pc = "new"
    /\ registry = [s \in Services |-> "unknown"]
    /\ logic_modules = {}
    /\ schema = [s \in Services |-> "unknown"]
    /\ specs = [s \in Services |-> "none"]
    /\ fetches = [s \in Services |-> 0]
    /\ upstream = [u \in Urls |-> NoAnswer]
    /\ data = [u \in Urls |-> NoAnswer]
    /\ upCalls = [u \in Urls |-> 0]
    /\ subCalls = [u \in Urls |-> 0]
    /\ hits = [u \in Urls |-> 0]
    /\ calls = {}
    /\ rels = <<>>
    /\ joins = [s \in Slots |-> <<>>]
    /\ embed = [s \in Slots |-> [set |-> FALSE, items |-> <<>>]]
    /\ cur = [i |-> 0, j |-> 0, k |-> 0]
    /\ warm = <<>>
    /\ fan = <<>>
    /\ primary = NoAnswer
    /\ response = NoResponse
    /\ error = NoError
    /\ first = NotRun

reqVars == <<executor, method, jsonBody, inbound, first>>
regVars == <<registry, logic_modules, schema, specs, fetches>>
callVars == <<upCalls, subCalls, calls, hits>>
storeVars == <<upstream, data>>
upVars == <<callVars, storeVars>>
joinVars == <<rels, joins, embed, cur>>
taskVars == <<warm, fan>>

----------------------------------------------------------------------------
\* Building blocks shared by the two request classes

\* BaseGatewayRequest._get_logic_module, r being what the registry answers
get_logic_module(svc, r) ==
    /\ registry' = [registry EXCEPT ![svc] = r]
    /\ logic_modules' = IF r = "yes" THEN logic_modules \cup {svc} ELSE logic_modules

\* BaseGatewayRequest.prepare_data: the operation is in the spec or
\* EndpointNotFound is raised
prepare_data(svc) == specs[svc] = "ok"

\* the cache test of _data_request
CacheHit(url) == is_valid_for_cache(method, qp) /\ data[url].kind # "none"

\* the upstream call of _data_request leaving the engine
Send(url, sub, params) ==
    /\ upCalls' = [upCalls EXCEPT ![url] = @ + 1]
    /\ subCalls' = IF sub THEN [subCalls EXCEPT ![url] = @ + 1] ELSE subCalls
    /\ calls' = calls \cup {[url |-> url, params |-> params,
                             data |-> get_request_data(method, qp, jsonBody)]}
    /\ hits' = hits

\* the answer of _data_request taken from self._data
Hit(url) ==
    /\ hits' = [hits EXCEPT ![url] = @ + 1]
    /\ UNCHANGED <<upCalls, subCalls, calls, storeVars>>

\* Receive without the cache write
Receive_no_store(url, a) ==
    /\ upstream' = [upstream EXCEPT ![url] = a]
    /\ data' = data

\* the answer a of the upstream call arriving, and the cache write
Receive(url, a) ==
    /\ upstream' = [upstream EXCEPT ![url] = a]
    /\ data' = IF a.kind = "resp" /\ is_valid_for_cache(method, qp)
               THEN [data EXCEPT ![url] = a] ELSE data

\* what aiohttp's response.json() does with the answer a: a body whose
\* content type is not application/json raises ContentTypeError, which
\* AsyncGatewayRequest._data_request does not catch
AsyncJsonOutcome(a) ==
    IF a.kind = "fail" THEN "ClientError"
    ELSE IF a.body = "raw" THEN "ContentTypeError"
    ELSE "ok"

\* the answer a arriving in AsyncGatewayRequest._data_request: the cache write
\* is reached when response.json() or response.content.read() returned
AsyncReceive(url, a) ==
    IF AsyncJsonOutcome(a) = "ok" THEN Receive(url, a)
    ELSE upstream' = [upstream EXCEPT ![url] = a] /\ data' = data

\* the join test of _get_data
JoinWanted(a) == "join" \in qp /\ a.status = HTTP_OK /\ IsStructured(a)

Raise(name, at) ==
    pc' = "error" /\ error' = [exc |-> name, at |-> at] /\ UNCHANGED response

\* the position after relationship j of record i; last is the position after
\* the last relationship of the last record
Advance(i, j, last) ==
    IF j < Len(rels) THEN pc' = "rel" /\ cur' = [i |-> i, j |-> j + 1, k |-> 0]
    ELSE IF i < NumRecs THEN pc' = "record" /\ cur' = [i |-> i + 1, j |-> 0, k |-> 0]
    ELSE pc' = last /\ cur' = [i |-> 0, j |-> 0, k |-> 0]

\* Assembled with the status and headers of an answered sub-request
Assembled_from_sub ==
    LET answered == {u \in SubUrls : upstream[u].kind = "resp"}
        last == IF answered = {} THEN primary
                ELSE upstream[CHOOSE u \in answered :
                                \A v \in answered : upstream[v].status <= upstream[u].status]
    IN [set |-> TRUE, origin |-> "primary", status |-> last.status,
        headers |-> last.headers, body |-> primary.body,
        records |-> primary.lookup, embed |-> embed]

\* Assembled from resp_data, the records under results, instead of content
Assembled_from_resp_data ==
    [set |-> TRUE, origin |-> "primary", status |-> primary.status,
     headers |-> primary.headers,
     body |-> IF primary.body = "results" THEN "list" ELSE primary.body,
     records |-> primary.lookup, embed |-> embed]

\* the GatewayResponse built at the end of _get_data
Assembled ==
    [set |-> TRUE, origin |-> "primary", status |-> primary.status,
     headers |-> primary.headers, body |-> primary.body,
     records |-> primary.lookup, embed |-> embed]

\* GatewayResponse(e.content, e.status, {'Content-Type': e.content_type})
NotFoundResponse ==
    [set |-> TRUE, origin |-> "ServiceDoesNotExist", status |-> HTTP_NOT_FOUND,
     headers |-> "error-content-type", body |-> "error-content",
     records |-> <<>>, embed |-> embed]

----------------------------------------------------------------------------
\* GatewayRequest: the sequential executor

\* GatewayRequest._get_swagger_spec: what it ends with, r and s being the
\* answers of the registry and of the schema_url
SyncSpecOutcome(svc, r, s) ==
    IF r = "no" THEN "ServiceDoesNotExist"
    ELSE IF specs[svc] # "none" THEN "ok"
    ELSE IF s = "unreachable" THEN "ConnectionError"
    ELSE IF s = "notjson" THEN "ValueError"
    ELSE "ok"

Sync_get_swagger_spec(svc, r, s) ==
    /\ get_logic_module(svc, r)
    /\ IF r = "yes" /\ specs[svc] = "none"
       THEN /\ fetches' = [fetches EXCEPT ![svc] = @ + 1]
            /\ schema' = [schema EXCEPT ![svc] = s]
            /\ specs' = IF s \in {"ok", "noop"} THEN [specs EXCEPT ![svc] = s] ELSE specs
       ELSE UNCHANGED <<fetches, schema, specs>>

\* GatewayRequest.perform up to the call of _get_data
Sync_perform ==
    /\ executor = "sync" /\ pc = "new"
    /\ \E r \in RegistryAnswers(PrimaryService), s \in SchemaAnswers(PrimaryService) :
         /\ Sync_get_swagger_spec(PrimaryService, r, s)
         /\ LET o == SyncSpecOutcome(PrimaryService, r, s)
            IN IF o = "ServiceDoesNotExist"
               THEN pc' = "done" /\ response' = NotFoundResponse /\ UNCHANGED error
               ELSE IF o = "ok" THEN pc' = "spec_ready" /\ UNCHANGED <<response, error>>
               ELSE Raise(o, "primary_spec")
    /\ UNCHANGED <<reqVars, qp, upVars, joinVars, taskVars, primary>>

\* GatewayRequest._data_request for the primary call, and the join test
Sync_data_request ==
    /\ executor = "sync" /\ pc = "spec_ready"
    /\ IF ~prepare_data(PrimaryService)
       THEN Raise("EndpointNotFound", "primary") /\ UNCHANGED <<upVars, primary>>
       ELSE IF CacheHit(PrimaryUrl)
       THEN /\ primary' = data[PrimaryUrl]
            /\ pc' = IF JoinWanted(data[PrimaryUrl]) THEN "join" ELSE "joined"
            /\ Hit(PrimaryUrl)
            /\ UNCHANGED <<response, error>>
       ELSE \E a \in UpstreamAnswers(PrimaryUrl) :
              /\ Send(PrimaryUrl, FALSE, qp)
              /\ Receive(PrimaryUrl, a)
              /\ IF a.kind = "fail"
                 THEN Raise("GatewayError", "primary") /\ UNCHANGED primary
                 ELSE /\ primary' = a
                      /\ pc' = IF JoinWanted(a) THEN "join" ELSE "joined"
                      /\ UNCHANGED <<response, error>>
    /\ UNCHANGED <<reqVars, qp, regVars, joinVars, taskVars>>

\* GatewayRequest._join_response_data: the relationships of the primary model
\* and the records to nest into
Sync_join_response_data ==
    /\ executor = "sync" /\ pc = "join"
    /\ \/ /\ "no" \in LogicModuleModelAnswers
          /\ Raise("LogicModuleModel.DoesNotExist", "plan") /\ UNCHANGED joinVars
       \/ \E rs \in RelationshipsAnswers :
            /\ "yes" \in LogicModuleModelAnswers
            /\ rels' = rs
            /\ IF NumRecs = 0
               THEN pc' = "joined" /\ UNCHANGED cur
               ELSE pc' = "record" /\ cur' = [i |-> 1, j |-> 0, k |-> 0]
            /\ UNCHANGED <<joins, embed, response, error>>
    /\ UNCHANGED <<reqVars, qp, regVars, upVars, taskVars, primary>>

\* _add_nested_data leaving the query parameters of the request as they are
Sync_add_nested_data_keep_query ==
    /\ executor = "sync" /\ pc = "record"
    /\ qp' = qp
    /\ IF ~primary.lookup[cur.i]
       THEN Raise("DataMeshError", "plan") /\ UNCHANGED cur
       ELSE Advance(cur.i, 0, "joined") /\ UNCHANGED <<response, error>>
    /\ UNCHANGED <<reqVars, regVars, upVars, rels, joins, embed, taskVars, primary>>

\* _add_nested_data going on to the next record when the lookup field is
\* missing
Sync_add_nested_data_skip ==
    /\ executor = "sync" /\ pc = "record"
    /\ qp' = {}
    /\ Advance(cur.i, IF primary.lookup[cur.i] THEN 0 ELSE Len(rels), "joined")
    /\ UNCHANGED <<response, error>>
    /\ UNCHANGED <<reqVars, regVars, upVars, rels, joins, embed, taskVars, primary>>

\* GatewayRequest._add_nested_data up to the loop over the relationships
Sync_add_nested_data ==
    /\ executor = "sync" /\ pc = "record"
    /\ qp' = {}
    /\ IF ~primary.lookup[cur.i]
       THEN Raise("DataMeshError", "plan") /\ UNCHANGED cur
       ELSE Advance(cur.i, 0, "joined") /\ UNCHANGED <<response, error>>
    /\ UNCHANGED <<reqVars, regVars, upVars, rels, joins, embed, taskVars, primary>>

\* one turn of the loop over the relationships in _add_nested_data, up to the
\* loop over the join records
Sync_relationship ==
    /\ executor = "sync" /\ pc = "rel"
    /\ LET i == cur.i
           j == cur.j
           rel == rels[j]
           lk == prepare_lookup_kwargs(rel.fwd, rel)
       IN \E targets \in JoinRecordsAnswers(i, j) :
            /\ embed' = [embed EXCEPT ![<<i, j>>] = [set |-> TRUE, items |-> <<>>]]
            /\ joins' = [joins EXCEPT ![<<i, j>>] = get_join_records(i, rel.fwd, targets)]
            /\ IF targets = <<>>
               THEN Advance(i, j, "joined") /\ UNCHANGED <<regVars, response, error>>
               ELSE \E r \in RegistryAnswers(lk.model), s \in SchemaAnswers(lk.model) :
                      /\ Sync_get_swagger_spec(lk.model, r, s)
                      /\ LET o == SyncSpecOutcome(lk.model, r, s)
                         IN IF o = "ServiceDoesNotExist"
                            THEN pc' = "joined" /\ UNCHANGED <<cur, response, error>>
                            ELSE IF o = "ok"
                            THEN /\ pc' = "sub"
                                 /\ cur' = [cur EXCEPT !.k = 1]
                                 /\ UNCHANGED <<response, error>>
                            ELSE Raise(o, "related_spec") /\ UNCHANGED cur
    /\ UNCHANGED <<reqVars, qp, upVars, rels, taskVars, primary>>

\* one turn of the loop over the join records in _add_nested_data
Sync_join_record ==
    /\ executor = "sync" /\ pc = "sub"
    /\ LET i == cur.i
           j == cur.j
           rel == rels[j]
           lk == prepare_lookup_kwargs(rel.fwd, rel)
           url == <<lk.model, joins[<<i, j>>][cur.k][lk.field]>>
           next == IF cur.k < Len(joins[<<i, j>>])
                   THEN pc' = "sub" /\ cur' = [cur EXCEPT !.k = @ + 1]
                   ELSE Advance(i, j, "joined")
           append(content) ==
               embed' = IF content.body = "dict"
                        THEN [embed EXCEPT ![<<i, j>>].items = Append(@, url)]
                        ELSE embed
       IN IF ~prepare_data(lk.model)
          THEN Raise("EndpointNotFound", "sub") /\ UNCHANGED <<upVars, embed, cur>>
          ELSE IF CacheHit(url)
          THEN append(data[url]) /\ next /\ Hit(url) /\ UNCHANGED <<response, error>>
          ELSE \E a \in UpstreamAnswers(url) :
                 /\ Send(url, TRUE, qp)
                 /\ Receive(url, a)
                 /\ IF a.kind = "fail"
                    THEN Raise("GatewayError", "sub") /\ UNCHANGED <<embed, cur>>
                    ELSE append(a) /\ next /\ UNCHANGED <<response, error>>
    /\ UNCHANGED <<reqVars, qp, regVars, rels, joins, taskVars, primary>>

\* the end of GatewayRequest._get_data: _aggregate_response_data finds no
\* legacy relationship, the payload is serialized and the response returned
Sync_get_data ==
    /\ executor = "sync" /\ pc = "joined"
    /\ pc' = "done"
    /\ response' = Assembled
    /\ UNCHANGED <<reqVars, qp, regVars, upVars, joinVars, taskVars, primary, error>>

SyncNext ==
    \/ Sync_perform
    \/ Sync_data_request
    \/ Sync_join_response_data
    \/ Sync_add_nested_data
    \/ Sync_relationship
    \/ Sync_join_record
    \/ Sync_get_data

----------------------------------------------------------------------------
\* AsyncGatewayRequest: the concurrent executor.  A coroutine runs without
\* interruption up to its next network await; tasks handed to asyncio.gather
\* start in the order given and their answers arrive in any order.

\* async_perform sending the primary call without awaiting the spec
Async_perform_no_wait ==
    /\ executor = "async" /\ pc = "new"
    /\ \E r \in RegistryAnswers(PrimaryService) :
         /\ get_logic_module(PrimaryService, r)
         /\ IF r = "no"
            THEN Raise("GatewayError", "primary_spec") /\ UNCHANGED <<fetches, callVars>>
            ELSE /\ fetches' = [fetches EXCEPT ![PrimaryService] = @ + 1]
                 /\ Send(PrimaryUrl, FALSE, {})
                 /\ pc' = "primary_wait"
                 /\ UNCHANGED <<response, error>>
    /\ UNCHANGED <<reqVars, qp, schema, specs, storeVars, joinVars, taskVars, primary>>

\* AsyncGatewayRequest.perform and async_perform up to the GET of the
\* primary service's schema_url.  On ServiceDoesNotExist async_perform
\* returns a response that is never stored in result.
Async_perform ==
    /\ executor = "async" /\ pc = "new"
    /\ \E r \in RegistryAnswers(PrimaryService) :
         /\ get_logic_module(PrimaryService, r)
         /\ IF r = "no"
            THEN Raise("GatewayError", "primary_spec") /\ UNCHANGED fetches
            ELSE /\ fetches' = [fetches EXCEPT ![PrimaryService] = @ + 1]
                 /\ pc' = "spec_wait"
                 /\ UNCHANGED <<response, error>>
    /\ UNCHANGED <<reqVars, qp, schema, specs, upVars, joinVars, taskVars, primary>>

\* what AsyncGatewayRequest._get_swagger_spec ends with when the schema_url
\* answers s
AsyncSpecOutcome(s) ==
    IF s = "unreachable" THEN "ClientError"
    ELSE IF s = "notjson" THEN "GatewayError"
    ELSE "ok"

\* the answer s of a schema_url arriving in AsyncGatewayRequest._get_swagger_spec
SpecArrives(svc, s) ==
    /\ schema' = [schema EXCEPT ![svc] = s]
    /\ specs' = IF AsyncSpecOutcome(s) = "ok" THEN [specs EXCEPT ![svc] = s] ELSE specs

\* AsyncGatewayRequest._get_swagger_spec of the primary service, after the await
Async_get_swagger_spec ==
    /\ executor = "async" /\ pc = "spec_wait"
    /\ \E s \in SchemaAnswers(PrimaryService) :
         /\ SpecArrives(PrimaryService, s)
         /\ IF AsyncSpecOutcome(s) = "ok"
            THEN pc' = "spec_ready" /\ UNCHANGED <<response, error>>
            ELSE Raise(AsyncSpecOutcome(s), "primary_spec")
    /\ UNCHANGED <<reqVars, qp, registry, logic_modules, fetches, upVars, joinVars,
                   taskVars, primary>>

\* AsyncGatewayRequest._data_request for the primary call, up to the await
Async_data_request ==
    /\ executor = "async" /\ pc = "spec_ready"
    /\ IF ~prepare_data(PrimaryService)
       THEN Raise("EndpointNotFound", "primary") /\ UNCHANGED <<upVars, primary>>
       ELSE IF CacheHit(PrimaryUrl)
       THEN /\ primary' = data[PrimaryUrl]
            /\ pc' = IF JoinWanted(data[PrimaryUrl]) THEN "join" ELSE "joined"
            /\ Hit(PrimaryUrl)
            /\ UNCHANGED <<response, error>>
       ELSE /\ Send(PrimaryUrl, FALSE, {})
            /\ pc' = "primary_wait"
            /\ UNCHANGED <<storeVars, primary, response, error>>
    /\ UNCHANGED <<reqVars, qp, regVars, joinVars, taskVars>>

\* AsyncGatewayRequest._data_request for the primary call, after the await,
\* and the join test of _get_data
Async_primary_answer ==
    /\ executor = "async" /\ pc = "primary_wait"
    /\ \E a \in UpstreamAnswers(PrimaryUrl) :
         /\ AsyncReceive(PrimaryUrl, a)
         /\ IF AsyncJsonOutcome(a) # "ok"
            THEN Raise(AsyncJsonOutcome(a), "primary") /\ UNCHANGED primary
            ELSE /\ primary' = a
                 /\ pc' = IF JoinWanted(a) THEN "join" ELSE "joined"
                 /\ UNCHANGED <<response, error>>
    /\ UNCHANGED <<reqVars, qp, regVars, callVars, joinVars, taskVars>>

\* AsyncGatewayRequest._join_response_data up to the first gather: one
\* _get_swagger_spec task per relationship, for relationship.related_model
Async_join_response_data ==
    /\ executor = "async" /\ pc = "join"
    /\ \/ /\ "no" \in LogicModuleModelAnswers
          /\ Raise("LogicModuleModel.DoesNotExist", "plan") /\ UNCHANGED <<rels, warm>>
       \/ \E rs \in RelationshipsAnswers :
            /\ "yes" \in LogicModuleModelAnswers
            /\ rels' = rs
            /\ warm' = [t \in 1..Len(rs) |->
                          [svc |-> related_model(rs[t]), st |-> "new", exc |-> ""]]
            /\ pc' = "warmup"
            /\ UNCHANGED <<response, error>>
    /\ UNCHANGED <<reqVars, qp, regVars, upVars, joins, embed, cur, fan, primary>>

\* a task of a gather ends with an exception: gather hands the first one to
\* the awaiting coroutine, the later ones are lost
Failed(tasks, t, exc) ==
    [tasks EXCEPT ![t].st = IF \E u \in DOMAIN tasks : tasks[u].st = "raised"
                            THEN "lost" ELSE "raised",
                  ![t].exc = exc]

Started(tasks, t) == \A u \in 1..(t - 1) : tasks[u].st # "new"

\* a spec warm-up task: AsyncGatewayRequest._get_swagger_spec up to the await
Warm_start(t) ==
    /\ executor = "async" /\ pc = "warmup"
    /\ warm[t].st = "new" /\ Started(warm, t)
    /\ LET svc == warm[t].svc
       IN \E r \in RegistryAnswers(svc) :
            /\ get_logic_module(svc, r)
            /\ IF r = "no"
               THEN /\ warm' = Failed(warm, t, "ServiceDoesNotExist")
                    /\ UNCHANGED fetches
               ELSE IF specs[svc] # "none"
               THEN /\ warm' = [warm EXCEPT ![t].st = "done"]
                    /\ UNCHANGED fetches
               ELSE /\ warm' = [warm EXCEPT ![t].st = "wait"]
                    /\ fetches' = [fetches EXCEPT ![svc] = @ + 1]
    /\ UNCHANGED <<reqVars, qp, pc, schema, specs, upVars, joinVars, fan, primary,
                   response, error>>

\* a spec warm-up task: AsyncGatewayRequest._get_swagger_spec after the await
Warm_finish(t) ==
    /\ executor = "async" /\ pc = "warmup"
    /\ warm[t].st = "wait"
    /\ LET svc == warm[t].svc
       IN \E s \in SchemaAnswers(svc) :
            /\ SpecArrives(svc, s)
            /\ warm' = IF AsyncSpecOutcome(s) = "ok"
                       THEN [warm EXCEPT ![t].st = "done"]
                       ELSE Failed(warm, t, AsyncSpecOutcome(s))
    /\ UNCHANGED <<reqVars, qp, pc, registry, logic_modules, fetches, upVars,
                   joinVars, fan, primary, response, error>>

\* what the awaiting coroutine does with the exception of a gather:
\* _get_data logs ServiceDoesNotExist and goes on, anything else ends perform
Gather_raises(tasks, at) ==
    \E t \in DOMAIN tasks :
        /\ tasks[t].st = "raised"
        /\ IF tasks[t].exc = "ServiceDoesNotExist"
           THEN pc' = "joined" /\ UNCHANGED <<response, error>>
           ELSE Raise(tasks[t].exc, at)

\* the first asyncio.gather of _join_response_data returns or raises
Warm_gather ==
    /\ executor = "async" /\ pc = "warmup"
    /\ \/ /\ \A t \in DOMAIN warm : warm[t].st = "done"
          /\ IF NumRecs = 0
             THEN pc' = "fanout" /\ UNCHANGED cur
             ELSE pc' = "record" /\ cur' = [i |-> 1, j |-> 0, k |-> 0]
          /\ UNCHANGED <<response, error>>
       \/ Gather_raises(warm, "related_spec") /\ UNCHANGED cur
    /\ UNCHANGED <<reqVars, qp, regVars, upVars, rels, joins, embed, taskVars, primary>>

\* AsyncGatewayRequest._prepare_datamesh_tasks up to the loop over the
\* relationships
Async_prepare_datamesh_tasks ==
    /\ executor = "async" /\ pc = "record"
    /\ qp' = {}
    /\ IF ~primary.lookup[cur.i]
       THEN Raise("DataMeshError", "plan") /\ UNCHANGED cur
       ELSE Advance(cur.i, 0, "fanout") /\ UNCHANGED <<response, error>>
    /\ UNCHANGED <<reqVars, regVars, upVars, rels, joins, embed, taskVars, primary>>

\* pk of the request_kwargs built by _prepare_datamesh_tasks
AsyncPk(join_record) == join_record.related_record_id

\* one turn of the loop over the relationships in _prepare_datamesh_tasks:
\* the spec of the related service is awaited, then one _extend_content
\* coroutine is made per join record
Async_relationship ==
    /\ executor = "async" /\ pc = "rel"
    /\ LET i == cur.i
           j == cur.j
           rel == rels[j]
           lk == prepare_lookup_kwargs(rel.fwd, rel)
       IN \E targets \in JoinRecordsAnswers(i, j) :
            LET jrs == get_join_records(i, rel.fwd, targets)
                tasks == [k \in 1..Len(jrs) |->
                            [rec |-> i, rel |-> j, url |-> <<lk.model, AsyncPk(jrs[k])>>,
                             st |-> "new", exc |-> ""]]
            IN /\ embed' = [embed EXCEPT ![<<i, j>>] = [set |-> TRUE, items |-> <<>>]]
               /\ joins' = [joins EXCEPT ![<<i, j>>] = jrs]
               /\ IF targets = <<>>
                  THEN /\ Advance(i, j, "fanout")
                       /\ UNCHANGED <<regVars, fan, response, error>>
                  ELSE \E r \in RegistryAnswers(lk.model), s \in SchemaAnswers(lk.model) :
                         /\ get_logic_module(lk.model, r)
                         /\ IF r = "no"
                            THEN /\ pc' = "joined"
                                 /\ UNCHANGED <<cur, fan, fetches, schema, specs,
                                                response, error>>
                            ELSE IF specs[lk.model] # "none"
                            THEN /\ fan' = fan \o tasks
                                 /\ Advance(i, j, "fanout")
                                 /\ UNCHANGED <<fetches, schema, specs, response, error>>
                            ELSE /\ fetches' = [fetches EXCEPT ![lk.model] = @ + 1]
                                 /\ SpecArrives(lk.model, s)
                                 /\ IF AsyncSpecOutcome(s) = "ok"
                                    THEN /\ fan' = fan \o tasks
                                         /\ Advance(i, j, "fanout")
                                         /\ UNCHANGED <<response, error>>
                                    ELSE Raise(AsyncSpecOutcome(s), "related_spec")
                                         /\ UNCHANGED <<cur, fan>>
    /\ UNCHANGED <<reqVars, qp, upVars, rels, warm, primary>>

\* AsyncGatewayRequest._extend_content after its _data_request returned
extend_content(t, content) ==
    embed' = IF content.body = "dict"
             THEN [embed EXCEPT ![<<fan[t].rec, fan[t].rel>>].items = Append(@, fan[t].url)]
             ELSE embed

\* a fan-out task: _extend_content and its _data_request up to the await
Fan_start(t) ==
    /\ executor = "async" /\ pc = "fanout"
    /\ fan[t].st = "new" /\ Started(fan, t)
    /\ LET url == fan[t].url
       IN IF ~prepare_data(url[1])
          THEN /\ fan' = Failed(fan, t, "EndpointNotFound")
               /\ UNCHANGED <<upVars, embed>>
          ELSE IF CacheHit(url)
          THEN /\ extend_content(t, data[url])
               /\ fan' = [fan EXCEPT ![t].st = "done"]
               /\ Hit(url)
          ELSE /\ Send(url, TRUE, {})
               /\ fan' = [fan EXCEPT ![t].st = "wait"]
               /\ UNCHANGED <<storeVars, embed>>
    /\ UNCHANGED <<reqVars, qp, pc, regVars, rels, joins, cur, warm, primary,
                   response, error>>

\* a fan-out task: its _data_request after the await, and the append
Fan_finish(t) ==
    /\ executor = "async" /\ pc = "fanout"
    /\ fan[t].st = "wait"
    /\ \E a \in UpstreamAnswers(fan[t].url) :
         /\ AsyncReceive(fan[t].url, a)
         /\ IF AsyncJsonOutcome(a) # "ok"
            THEN fan' = Failed(fan, t, AsyncJsonOutcome(a)) /\ UNCHANGED embed
            ELSE extend_content(t, a) /\ fan' = [fan EXCEPT ![t].st = "done"]
    /\ UNCHANGED <<reqVars, qp, pc, regVars, callVars, rels, joins,
                   cur, warm, primary, response, error>>

\* the second gather returning as soon as one of its tasks is done
Fan_gather_first_done ==
    /\ executor = "async" /\ pc = "fanout"
    /\ \/ /\ \E t \in DOMAIN fan : fan[t].st = "done"
          /\ pc' = "joined"
          /\ UNCHANGED <<response, error>>
       \/ Gather_raises(fan, "sub")
    /\ UNCHANGED <<reqVars, qp, regVars, upVars, joinVars, taskVars, primary>>

\* the second gather waiting for every task to be done, the failed ones too
Fan_gather_all_done ==
    /\ executor = "async" /\ pc = "fanout"
    /\ \A t \in DOMAIN fan : fan[t].st = "done"
    /\ pc' = "joined"
    /\ UNCHANGED <<response, error>>
    /\ UNCHANGED <<reqVars, qp, regVars, upVars, joinVars, taskVars, primary>>

\* the second asyncio.gather of _join_response_data returns or raises
Fan_gather ==
    /\ executor = "async" /\ pc = "fanout"
    /\ \/ /\ \A t \in DOMAIN fan : fan[t].st = "done"
          /\ pc' = "joined"
          /\ UNCHANGED <<response, error>>
       \/ Gather_raises(fan, "sub")
    /\ UNCHANGED <<reqVars, qp, regVars, upVars, joinVars, taskVars, primary>>

\* the end of AsyncGatewayRequest._get_data and of perform: the payload is
\* serialized and the response returned
Async_get_data ==
    /\ executor = "async" /\ pc = "joined"
    /\ pc' = "done"
    /\ response' = Assembled
    /\ UNCHANGED <<reqVars, qp, regVars, upVars, joinVars, taskVars, primary, error>>

AsyncNext ==
    \/ Async_perform
    \/ Async_get_swagger_spec
    \/ Async_data_request
    \/ Async_primary_answer
    \/ Async_join_response_data
    \/ \E t \in DOMAIN warm : Warm_start(t)
    \/ \E t \in DOMAIN warm : Warm_finish(t)
    \/ Warm_gather
    \/ Async_prepare_datamesh_tasks
    \/ Async_relationship
    \/ \E t \in DOMAIN fan : Fan_start(t)
    \/ \E t \in DOMAIN fan : Fan_finish(t)
    \/ Fan_gather
    \/ Async_get_data

Next == SyncNext \/ AsyncNext

Spec == Init /\ [][Next]_vars

\* Every step of a request is taken in the end: the sequential code runs on,
\* the event loop of asyncio.run resumes every coroutine that can go on, and
\* every upstream call answers or fails.
FairSpec == Spec /\ WF_vars(Next)

----------------------------------------------------------------------------
\* The two executors on the same inputs: the inbound request handled by
\* GatewayRequest, then the same request handled by a new AsyncGatewayRequest
\* against the same registry, schema_urls and upstreams.

\* what perform() ended with
Outcome ==
    IF pc = "done" THEN [kind |-> "response", response |-> response]
    ELSE [kind |-> "error", response |-> NoResponse]

\* what the sequential run asked of the registry stays as answered; a new
\* AsyncGatewayRequest is constructed for the same inbound request
AsyncGatewayRequest_init ==
    /\ executor = "sync" /\ pc \in {"done", "error"} /\ ~first.ran
    /\ first' = [ran |-> TRUE, outcome |-> Outcome,
                 model |-> IF error.exc = "LogicModuleModel.DoesNotExist" THEN "no"
                           ELSE IF /\ primary.kind = "resp" /\ "join" \in inbound
                                   /\ primary.status = HTTP_OK /\ IsStructured(primary)
                                THEN "yes"
                           ELSE "unknown",
                 known |-> {slot \in Slots : embed[slot].set}]
    /\ executor' = "async"
    /\ qp' = inbound
    /\ pc' = "new"
    /\ logic_modules' = {}
    /\ specs' = [s \in Services |-> "none"]
    /\ fetches' = [s \in Services |-> 0]
    /\ data' = [u \in Urls |-> NoAnswer]
    /\ upCalls' = [u \in Urls |-> 0]
    /\ subCalls' = [u \in Urls |-> 0]
    /\ hits' = [u \in Urls |-> 0]
    /\ calls' = {}
    /\ embed' = [s \in Slots |-> [set |-> FALSE, items |-> <<>>]]
    /\ cur' = [i |-> 0, j |-> 0, k |-> 0]
    /\ primary' = NoAnswer
    /\ response' = NoResponse
    /\ error' = NoError
    /\ UNCHANGED <<method, jsonBody, inbound, registry, schema, upstream, rels, joins,
                   taskVars>>

InitBoth == Init /\ executor = "sync"

NextBoth == SyncNext \/ AsyncGatewayRequest_init \/ AsyncNext

SpecBoth == InitBoth /\ [][NextBoth]_vars

----------------------------------------------------------------------------
\* Properties

RECURSIVE IsSubseq(_, _)
IsSubseq(a, b) ==
    IF a = <<>> THEN TRUE
    ELSE IF b = <<>> THEN FALSE
    ELSE IF Head(a) = Head(b) THEN IsSubseq(Tail(a), Tail(b))
    ELSE IsSubseq(a, Tail(b))

\* the upstream URLs the join records of a (record, relationship) resolve to,
\* in the order of the join records
SlotUrls(slot) ==
    [k \in 1..Len(joins[slot]) |->
        LET rel == rels[slot[2]]
            lk == prepare_lookup_kwargs(rel.fwd, rel)
        IN <<lk.model, IF executor = "sync" THEN joins[slot][k][lk.field]
                       ELSE AsyncPk(joins[slot][k])>>]

Returned == pc = "done" /\ response.set

\* C1: within one inbound request every schema_url is fetched at most once,
\* under both executors and for every interleaving of the warm-up tasks.
C1_SpecFetchedAtMostOnce == \A svc \in Services : fetches[svc] <= 1

\* C2: sequential executor, inbound GET: an upstream URL that join records
\* resolve to is requested once; every later sub-request for it is answered
\* from the response cache and causes no further upstream call.
C2_SequentialSubRequestOnce ==
    (executor = "sync" /\ method = "get") =>
        \A u \in SubUrls :
            /\ upCalls[u] <= 1
            /\ hits[u] > 0 => upCalls[u] = 1

\* C2 witness: the sequential join of a GET finished with a second sub-request
\* for a URL answered from the cache.
C2_Witness ==
    /\ executor = "sync" /\ method = "get" /\ Returned
    /\ \E u \in SubUrls : hits[u] > 0 /\ upCalls[u] = 1

\* C3: concurrent executor, inbound GET: plan items that resolve to the same
\* upstream URL cause at most one upstream call for it, whatever the
\* interleaving of the fan-out tasks.
C3_ConcurrentSingleFlight ==
    (executor = "async" /\ method = "get") =>
        \A u \in SubUrls : subCalls[u] <= 1

\* C4: in the returned response the objects of every embed list are in the
\* order of the join records of that record and relationship.
C4_EmbedOrder ==
    Returned => \A slot \in Slots : IsSubseq(response.embed[slot].items, SlotUrls(slot))

\* C5: a returned response for a primary answer with status 200, an object or
\* array payload and join in the query has every relationship key set on every
\* record that has the lookup field.
C5_RelationshipKeysSet ==
    (/\ Returned
     /\ primary.kind = "resp" /\ primary.status = HTTP_OK /\ IsStructured(primary)
     /\ "join" \in inbound)
    => \A i \in 1..NumRecs : primary.lookup[i] =>
          \A j \in 1..Len(rels) : response.embed[<<i, j>>].set

\* C6: the failure of a join sub-request never ends the inbound request in
\* an error.
C6_SubRequestFailOpen == ~(pc = "error" /\ error.at = "sub")

\* C7: no object answered with a non-2xx status is in an embed list of the
\* returned response.
C7_NoEntryForNon2xx ==
    Returned => \A slot \in Slots :
        \A k \in DOMAIN response.embed[slot].items :
            upstream[response.embed[slot].items[k]].status = HTTP_OK

\* C8: the status and the headers of a response returned after the primary
\* upstream call are those the primary upstream answered, whatever the
\* sub-requests answered.
C8_PrimaryStatusAndHeaders ==
    (Returned /\ upstream[PrimaryUrl].kind = "resp") =>
        /\ response.status = upstream[PrimaryUrl].status
        /\ response.headers = upstream[PrimaryUrl].headers

\* C8 witness: a response with the primary's status 200 is returned after a
\* sub-request was answered with a non-2xx status and served again from the
\* cache.
C8_Witness ==
    /\ Returned /\ response.status = HTTP_OK
    /\ \E u \in SubUrls : upstream[u].status \in Non2xx /\ hits[u] > 0

\* C9: no upstream call carries aggregate or join, in its query string or in
\* its data.
C9_PrivateParamsStripped ==
    \A c \in calls : (c.params \cup c.data) \cap PrivateParams = {}

\* C10: when the service of the inbound URL is not registered, perform()
\* returns the response of ServiceDoesNotExist and no upstream call is made.
C10_UnknownServiceResponse ==
    registry[PrimaryService] = "no" =>
        /\ pc = "done" /\ response = NotFoundResponse
        /\ calls = {}
        /\ \A svc \in Services : fetches[svc] = 0

\* the join of the primary answer was entered: the relationships were read,
\* join records were looked up or a sub-request was made
JoinEntered ==
    \/ pc \in {"join", "warmup", "record", "rel", "sub", "fanout"}
    \/ rels # <<>>
    \/ \E slot \in Slots : embed[slot].set
    \/ \E u \in SubUrls : subCalls[u] > 0 \/ hits[u] > 0

\* C12: for an inbound request with a method other than GET the primary call
\* is forwarded but its answer is never joined: no join record is looked up and
\* no sub-request is made.
C12_WritesNeverJoin == method # "get" => ~JoinEntered

\* C13: a primary answer whose payload is no JSON object or array causes no
\* join sub-request, and the request ends with a response that carries the
\* payload as the upstream sent it.
C13_UnstructuredPassThrough ==
    (upstream[PrimaryUrl].kind = "resp" /\ ~IsStructured(upstream[PrimaryUrl])) =>
        /\ ~JoinEntered
        /\ pc # "error"
        /\ pc = "done" =>
              /\ response.set /\ response.origin = "primary"
              /\ response.body = upstream[PrimaryUrl].body

\* C14: when the primary upstream call fails at the transport layer the
\* inbound request ends with GatewayError and without a response.
C14_PrimaryTransportFailure ==
    upstream[PrimaryUrl].kind = "fail" =>
        /\ pc = "error" /\ error.exc = "GatewayError"
        /\ ~response.set

\* C15: when the GET of a schema_url fails or its answer is not JSON, the
\* inbound request ends with GatewayError and nothing is stored in the spec
\* cache for that schema_url.
C15_SpecFetchFailure ==
    \A svc \in Services :
        schema[svc] \in {"notjson", "unreachable"} =>
            /\ specs[svc] = "none"
            /\ ~response.set
            /\ pc = "error" => error.exc = "GatewayError"

\* C16: the response cache holds an entry, or answers a request, only while
\* the request is cache-eligible (GET, no query parameter), and every entry
\* comes from an upstream call made without query parameters.
C16_CacheOnlyWhenEligible ==
    \A u \in Urls :
        /\ (data[u].kind # "none" \/ hits[u] > 0) => method = "get" /\ qp = {}
        /\ data[u].kind # "none" =>
              /\ method = "get"
              /\ data[u] = upstream[u]
              /\ \E c \in calls : c.url = u /\ c.params = {}

\* C16 witness: an inbound GET with query parameters ended in a response; its
\* primary answer is not in the cache, the answers of its sub-requests are, and
\* one of them answered a later sub-request.
C16_Witness ==
    /\ Returned /\ inbound # {}
    /\ data[PrimaryUrl].kind = "none"
    /\ \E u \in SubUrls : data[u].kind = "resp" /\ hits[u] > 0

\* C17: planning a record without the lookup field ends the inbound request
\* with DataMeshError, for an object and for the records of a list, under both
\* executors; the error is final and no response is returned.
C17_MissingLookupFieldFatal ==
    [][/\ pc # "error"
       /\ (pc = "record" /\ ~primary.lookup[cur.i]) =>
             /\ pc' = "error"
             /\ error' = [exc |-> "DataMeshError", at |-> "plan"]
             /\ ~response'.set]_vars

\* C17 witness: the sequential join of a list ended with DataMeshError at its
\* second record after an object was nested into the first one.
C17_Witness ==
    /\ pc = "error" /\ error.exc = "DataMeshError" /\ ~response.set
    /\ primary.body \in {"results", "list"}
    /\ cur.i > 1 /\ ~primary.lookup[cur.i]
    /\ \E j \in 1..Len(rels) : embed[<<1, j>>].items # <<>>

\* C18: the payload of a response returned after the primary call has the
\* shape the primary upstream answered, with everything beside the records of
\* a paginated payload, and the same records in the same order, each with the
\* fields it came with; the join adds the relationship keys only.
C18_JoinKeepsPrimaryFields ==
    (Returned /\ response.origin = "primary") =>
        /\ response.body = upstream[PrimaryUrl].body
        /\ response.records = upstream[PrimaryUrl].lookup

\* C18 witness: the response of a joined paginated payload of two records, an
\* object nested into the second one.
C18_Witness ==
    /\ Returned /\ response.body = "results" /\ Len(response.records) > 1
    /\ \E j \in 1..Len(rels) : response.embed[<<Len(response.records), j>>].items # <<>>

\* the steps of an inbound request: NEW, SPEC_READY, PRIMARY_FETCHED with the
\* join, ASSEMBLED, DONE; an error ends the request at any step
Phase(p) ==
    CASE p \in {"new", "spec_wait"} -> 0
      [] p \in {"spec_ready", "primary_wait"} -> 1
      [] p \in {"join", "warmup", "record", "rel", "sub", "fanout"} -> 2
      [] p = "joined" -> 3
      [] p = "done" -> 4
      [] p = "error" -> 5

\* something was asked about a related service
RelatedAsked ==
    \E svc \in RelatedServices : registry[svc] # "unknown" \/ fetches[svc] > 0

\* C19: the steps of a request never go back; the primary call is sent only
\* when the spec of the primary service is in the spec cache; relationships,
\* join records, related specs and sub-requests are asked for only after the
\* primary upstream has answered.
C19_StepOrder ==
    /\ [][Phase(pc) <= Phase(pc')]_vars
    /\ [](upCalls[PrimaryUrl] > 0 => specs[PrimaryService] # "none")
    /\ []((JoinEntered \/ RelatedAsked) =>
            upstream[PrimaryUrl].kind = "resp" /\ primary = upstream[PrimaryUrl])

\* C19 witness: a response returned after the spec of a related service was
\* fetched and a sub-request was sent.
C19_Witness ==
    /\ Returned
    /\ \E svc \in RelatedServices : fetches[svc] > 0
    /\ \E u \in SubUrls : subCalls[u] > 0

\* C20: concurrent executor: after the first gather has returned, while the
\* plan items are made and carried out, no schema_url is fetched.
C20_NoFetchAfterWarmup ==
    [][(executor = "async" /\ pc \in {"record", "rel", "fanout", "joined"}) =>
          fetches' = fetches]_vars

\* C11: on the same inbound request, registry and upstream answers the
\* concurrent executor ends as the sequential one did: both with an error, or
\* both with a response of the same status, headers and payload, every embed
\* list holding the same objects in the same order.
C11_ExecutorsAgree ==
    (first.ran /\ pc \in {"done", "error"}) => Outcome = first.outcome

\* C21: concurrent executor: when the payload is serialized every plan item
\* handed to the second gather has completed (none was handed over when
\* planning ended early); from then on no sub-request is sent or answered and
\* no embed list changes, and the response holds the embed lists as they are.
C21_ResponseAfterAllPlanItems ==
    /\ []((executor = "async" /\ pc \in {"joined", "done"}) =>
            /\ \/ \A t \in DOMAIN fan : fan[t].st = "done"
               \/ \A t \in DOMAIN fan : fan[t].st = "new"
            /\ pc = "done" => response.embed = embed)
    /\ [][(executor = "async" /\ pc \in {"joined", "done"}) =>
            /\ embed' = embed /\ fan' = fan
            /\ upCalls' = upCalls /\ upstream' = upstream]_vars

\* C21 witness: the concurrent executor returned a response after two plan
\* items completed, the second one first.
C21_Witness ==
    /\ executor = "async" /\ Returned
    /\ Len(fan) > 1 /\ \A t \in DOMAIN fan : fan[t].st = "done"
    /\ \E slot \in Slots :
          /\ Len(response.embed[slot].items) > 1
          /\ response.embed[slot].items # SlotUrls(slot)

RECURSIVE SumOver(_, _)
SumOver(f, D) ==
    IF D = {} THEN 0
    ELSE LET d == CHOOSE x \in D : TRUE
         IN f[d] + SumOver(f, D \ {d})

\* C22: every inbound request ends, with a response or with an error, and
\* the sub-requests sent are never more than the join records looked up for
\* the records of the primary payload.
C22_TerminatesWithinJoinRecords ==
    /\ <>(pc \in {"done", "error"})
    /\ [](SumOver(subCalls, SubUrls) <= Planned)

\* C22 witness: a request ended in a response after one sub-request was sent
\* for each of its MaxPlan join records.
C22_Witness ==
    /\ Returned
    /\ Planned = MaxPlan /\ SumOver(subCalls, SubUrls) = Planned

\* the names of the query parameters of the inbound requests
QueryNames == UNION {rq.query : rq \in Requests}

\* C23: planning the first record of a join empties the query parameters of
\* the request and they stay empty; every sub-request is sent without query
\* parameter, in its query string and in its data; for an inbound GET the
\* answer of every sub-request is written to the response cache, which the
\* answer of a primary call with join in its query string is not.
C23_SubRequestsWithoutQuery ==
    /\ [][/\ pc = "record" => qp' = {}
          /\ qp = {} => qp' = {}]_vars
    /\ [](\A c \in calls : c.url \in SubUrls =>
              c.params = {} /\ c.data \cap QueryNames = {})
    /\ [](\A u \in SubUrls :
              /\ (subCalls[u] > 0 \/ hits[u] > 0) => qp = {}
              /\ (/\ method = "get" /\ upstream[u].kind = "resp"
                  /\ (executor = "async" => AsyncJsonOutcome(upstream[u]) = "ok"))
                 => data[u] = upstream[u])
    /\ []("join" \in inbound => data[PrimaryUrl].kind = "none")

\* C23 witness: an inbound GET with join and a filter in its query string
\* ended in a response; a sub-request was sent and its answer is in the cache,
\* the primary answer is not.
C23_Witness ==
    /\ Returned /\ method = "get" /\ {"join", "q"} \subseteq inbound /\ qp = {}
    /\ data[PrimaryUrl].kind = "none"
    /\ \E c \in calls : c.url \in SubUrls /\ data[c.url].kind = "resp"

====
